---- MODULE Spec2Model ----
(***************************************************************************)
(* Linear regression from scratch (src/lr.ipynb): the normal-equation      *)
(* solver multiple_linear_regression, the batch gradient_descent loop with *)
(* compute_cost, and predict.                                              *)
(*                                                                         *)
(* Numbers.  A numpy 2-D array is a record [rows, cols, a] (its shape and  *)
(* its rows), a 1-D array a sequence.  The caller's arrays hold integers.  *)
(* The normal equation is computed over the rationals: a vector of         *)
(* numerators over one denominator (the determinant).  The gradient        *)
(* descent loop runs in fixed point, one unit = 1/Scale, every float       *)
(* operation of the source rounding to the nearest unit.                   *)
(***************************************************************************)
EXTENDS Integers, Sequences, FiniteSets

VARIABLES
    Xin,             \* the caller's feature array (parameter X before line 103/223/234)
    y,               \* the caller's target array
    fn,              \* the function being (or last) executed
    pc,              \* "idle" | "done"
    alpha,           \* learning rate, in units of 1/AlphaDen
    num_iterations,  \* gradient_descent's num_iterations
    m,               \* gradient_descent's m = len(y)
    X,               \* the local design matrix (X after column_stack)
    theta,           \* gradient_descent's theta, fixed point
    cost_history,    \* gradient_descent's cost_history, fixed point
    passes,          \* the passes of gradient_descent's loop completed
    outcome,         \* "none" | "returned" | the exception raised
    result           \* the value returned: [num, den], or NoResult

vars == <<Xin, y, fn, pc, alpha, num_iterations, m, X, theta, cost_history, passes,
          outcome, result>>

----------------------------------------------------------------------------
(* Bounds of the model *)

MaxRows == 2
MaxCols == 1
MaxVal == 1
MaxIter == 2
MaxCoef == 3

(* Fixed point: Milli units per 1, Scale = Milli^2 units per 1 for theta *)
Milli == 10 * 10 * 10
Scale == Milli * Milli
AlphaDen == 10 * 10

(* The notebook's example cells *)
ExampleX == [rows |-> 4, cols |-> 2,
             a |-> << <<0, 2>>, <<2, 3>>, <<3, 4>>, <<4, 5>> >>]
ExampleY == <<3, 4, 6, 8>>
ExampleAlpha == 3
ExampleIterations == 10000
ExampleBeta == <<-3, -1, 3>>

(* A constant feature column whose elimination rounds: 2/98 is no double *)
RoundingX == [rows |-> 2, cols |-> 1, a |-> << <<49>>, <<49>> >>]
RoundingY == <<0, 1>>

NoResult == [num |-> <<>>, den |-> 0]
NoMatrix == [rows |-> 0, cols |-> 0, a |-> <<>>]
Errors == {"ValueError", "LinAlgError", "ZeroDivisionError"}

----------------------------------------------------------------------------
(* numpy helpers *)

(* Op(v) with the argument v evaluated once, before the call, as Python *)
(* evaluates the arguments of a call                                     *)
ByValue(v, Op(_)) == CHOOSE r \in {Op(w) : w \in {v}} : TRUE

RECURSIVE SumTo(_, _)
SumTo(f, n) == IF n = 0 THEN 0 ELSE f[n] + SumTo(f, n - 1)

(* np.sum of a 1-D array *)
np_sum(v) == ByValue(v, LAMBDA w : SumTo(w, Len(w)))

(* np.zeros(n), n >= 0 *)
zeros(n) == [k \in 1..n |-> 0]

(* np.ones(n) *)
ones(n) == [k \in 1..n |-> 1]

(* np.column_stack([ones, A]) for a 1-D array of A.rows entries and a 2-D A *)
column_stack_last(o, A) ==
    [rows |-> A.rows, cols |-> A.cols + 1,
     a |-> [r \in 1..A.rows |-> A.a[r] \o <<o[r]>>]]

column_stack(o, A) ==
    [rows |-> A.rows, cols |-> A.cols + 1,
     a |-> [r \in 1..A.rows |-> <<o[r]>> \o A.a[r]]]

(* A.T *)
T(A) == [rows |-> A.cols, cols |-> A.rows,
         a |-> [c \in 1..A.cols |-> [r \in 1..A.rows |-> A.a[r][c]]]]

(* A.dot(v) for a 1-D v: defined when A.cols = Len(v) *)
dot_ok(A, v) == A.cols = Len(v)
dot(A, v) ==
    ByValue(<<A, v>>, LAMBDA p :
        [r \in 1..p[1].rows |->
            np_sum([c \in 1..p[1].cols |-> p[1].a[r][c] * p[2][c]])])

(* A.dot(B) for 2-D arrays with A.cols = B.rows *)
matmul(A, B) ==
    [rows |-> A.rows, cols |-> B.cols,
     a |-> [r \in 1..A.rows |-> [c \in 1..B.cols |->
              np_sum([k \in 1..A.cols |-> A.a[r][k] * B.a[k][c]])]]]

(* u - v on 1-D arrays with numpy's broadcasting: the shapes must be equal *)
(* or one of them 1                                                        *)
broadcast_ok(lu, lv) == lu = lv \/ lu = 1 \/ lv = 1
broadcast_len(lu, lv) == IF lu = 1 THEN lv ELSE lu
at(u, k) == IF Len(u) = 1 THEN u[1] ELSE u[k]
sub(u, v) ==
    ByValue(<<u, v>>, LAMBDA p :
        [k \in 1..broadcast_len(Len(p[1]), Len(p[2])) |-> at(p[1], k) - at(p[2], k)])

(* rounding division, b > 0: the nearest integer to a / b *)
RDiv(a, b) == (2 * a + b) \div (2 * b)

(* np.square of a fixed-point array, in units of 1/Scale *)
np_square(v) ==
    ByValue(v, LAMBDA w : [k \in 1..Len(w) |-> RDiv(w[k], Milli) * RDiv(w[k], Milli)])

----------------------------------------------------------------------------
(* np.linalg.inv over the rationals: the adjugate over the determinant *)

(* the square array A (a sequence of rows) without row r and column c *)
minor(A, r, c) ==
    [p \in 1..(Len(A) - 1) |-> [q \in 1..(Len(A) - 1) |->
        A[IF p < r THEN p ELSE p + 1][IF q < c THEN q ELSE q + 1]]]

sign(k) == IF k % 2 = 0 THEN 1 ELSE -1

(* the determinant, by expansion along the first row *)
RECURSIVE det(_)
det(A) ==
    IF Len(A) = 0 THEN 1
    ELSE IF Len(A) = 1 THEN A[1][1]
    ELSE np_sum([c \in 1..Len(A) |-> sign(1 + c) * A[1][c] * det(minor(A, 1, c))])

cofactor_unsigned(A, r, c) == det(minor(A, r, c))

cofactor(A, r, c) == sign(r + c) * det(minor(A, r, c))

(* the adjugate: the transposed matrix of cofactors *)
adjugate(A) ==
    [rows |-> A.rows, cols |-> A.cols,
     a |-> [r \in 1..A.rows |-> [c \in 1..A.cols |-> cofactor(A.a, c, r)]]]

(* np.linalg.inv factors A = P L U by row elimination with partial pivoting *)
(* in doubles and raises LinAlgError("Singular matrix") only when a pivot    *)
(* is exactly 0.0.  The elimination is followed here over the rationals,    *)
(* row r being the integers rows[r].v over rows[r].s, to tell whether every *)
(* multiplier is a double (a dyadic rational): then the doubles are the     *)
(* rationals, and a singular A meets a zero pivot.                          *)
abs(a) == IF a < 0 THEN -a ELSE a

RECURSIVE gcd(_, _)
gcd(a, b) == IF b = 0 THEN a ELSE gcd(b, a % b)

RECURSIVE is_pow2(_)
is_pow2(d) == d = 1 \/ (d > 1 /\ d % 2 = 0 /\ is_pow2(d \div 2))

(* n / d, d # 0, is a dyadic rational *)
dyadic(n, d) == is_pow2(abs(d) \div gcd(abs(d), abs(n)))

(* the first row among j..k of largest magnitude in column j *)
pivot_row(rows, j, k) ==
    CHOOSE p \in j..k :
        /\ \A r \in j..k : abs(rows[r].v[j]) * rows[p].s <= abs(rows[p].v[j]) * rows[r].s
        /\ \A r \in j..(p - 1) : abs(rows[r].v[j]) * rows[p].s < abs(rows[p].v[j]) * rows[r].s

swap(rows, j, p) == [rows EXCEPT ![j] = rows[p], ![p] = rows[j]]

(* row r less its multiple of the pivot row j that clears column j *)
eliminate(rows, j, k) ==
    [r \in 1..k |->
        IF r <= j THEN rows[r]
        ELSE [v |-> [c \in 1..k |-> abs(rows[j].v[j]) * rows[r].v[c]
                                    - sign(IF rows[j].v[j] < 0 THEN 1 ELSE 0)
                                      * rows[r].v[j] * rows[j].v[c]],
              s |-> rows[r].s * abs(rows[j].v[j])]]

(* "zero_pivot": a pivot is exactly zero; "inexact": a multiplier is rounded; *)
(* "regular": every pivot is non-zero and every multiplier exact             *)
RECURSIVE lu_status(_, _, _)
lu_status(rows, j, k) ==
    IF j > k THEN "regular"
    ELSE ByValue(swap(rows, j, pivot_row(rows, j, k)), LAMBDA sw :
             IF sw[j].v[j] = 0 THEN "zero_pivot"
             ELSE IF \E r \in (j + 1)..k :
                        ~dyadic(sw[r].v[j] * sw[j].s, sw[j].v[j] * sw[r].s)
             THEN "inexact"
             ELSE lu_status(eliminate(sw, j, k), j + 1, k))

(* what np.linalg.inv(A) can do: return the inverse; raise LinAlgError; or, *)
(* on a singular A whose elimination rounds, return the quotients by a      *)
(* rounding residue left in place of the zero pivot ("garbage")             *)
inv_outcomes(A) ==
    IF det(A.a) # 0 THEN {"inverse"}
    ELSE IF lu_status([r \in 1..A.rows |-> [v |-> A.a[r], s |-> 1]], 1, A.rows)
            = "zero_pivot"
    THEN {"LinAlgError"}
    ELSE {"LinAlgError", "garbage"}

(* np.linalg.inv(A) = inv_num(A) / inv_den(A); a denominator of 0 stands for *)
(* the rounding residue of a "garbage" inverse                              *)
inv_num(A) == adjugate(A)
inv_den(A) == det(A.a)

----------------------------------------------------------------------------
(* compute_cost and the body of gradient_descent's loop, in fixed point *)

(* the caller's integers as fixed-point numbers *)
fx(v) == [k \in 1..Len(v) |-> v[k] * Scale]

(* compute_cost(X, y, theta), lines 194-197: called only after the gradient *)
(* of the same pass was computed, so len(y) > 0 and the shapes broadcast    *)
compute_cost_per_sample(Xd, yy, th) ==
    LET mm == Len(yy)
        predictions == dot(Xd, th)
    IN  RDiv(np_sum(np_square(sub(predictions, fx(yy)))), mm)

compute_cost(Xd, yy, th) ==
    LET mm == Len(yy)
        predictions == dot(Xd, th)
    IN  RDiv(np_sum(np_square(sub(predictions, fx(yy)))), 2 * mm)

(* the exception line 226 raises, or "none" *)
gradients_error(Xd, yy, mm, th) ==
    IF mm = 0 THEN "ZeroDivisionError"
    ELSE IF ~broadcast_ok(Xd.rows, Len(yy)) THEN "ValueError"
    ELSE IF T(Xd).cols # broadcast_len(Xd.rows, Len(yy)) THEN "ValueError"
    ELSE "none"

(* gradients = (1/m) * X.T.dot(X.dot(theta) - y) *)
gradients_half(Xd, yy, mm, th) ==
    ByValue(dot(T(Xd), sub(dot(Xd, th), fx(yy))), LAMBDA g :
        [k \in 1..Len(g) |-> RDiv(g[k], 2 * mm)])

gradients(Xd, yy, mm, th) ==
    ByValue(dot(T(Xd), sub(dot(Xd, th), fx(yy))), LAMBDA g :
        [k \in 1..Len(g) |-> RDiv(g[k], mm)])

(* theta - alpha * gradients *)
update(th, al, g) ==
    ByValue(<<th, g>>, LAMBDA p :
        [k \in 1..Len(p[1]) |-> p[1][k] - RDiv(al * p[2][k], AlphaDen)])

(* one pass of the loop body, lines 226-228: the new theta and the cost *)
(* stored at index i                                                    *)
gd_step_cost_first(Xd, yy, mm, al, th) ==
    ByValue(update(th, al, gradients(Xd, yy, mm, th)), LAMBDA new :
        [theta |-> new, cost |-> compute_cost(Xd, yy, th)])

gd_step(Xd, yy, mm, al, th) ==
    ByValue(update(th, al, gradients(Xd, yy, mm, th)), LAMBDA new :
        [theta |-> new, cost |-> compute_cost(Xd, yy, new)])

(* len(range(num_iterations)), num_iterations >= 0: the passes of the loop *)
range_len_short(n) == IF n > 0 THEN n - 1 ELSE 0

range_len(n) == n

(* one pass of the loop on the locals s = [theta, cost_history, passes, err]; *)
(* an exception ends the call, and the passes after it do not run            *)
loop_body(Xd, yy, mm, al, s) ==
    IF s.err # "none" THEN s
    ELSE IF gradients_error(Xd, yy, mm, s.theta) # "none"
    THEN [s EXCEPT !.err = gradients_error(Xd, yy, mm, s.theta)]
    ELSE ByValue(gd_step(Xd, yy, mm, al, s.theta), LAMBDA st :
             [theta |-> st.theta,
              cost_history |-> [s.cost_history EXCEPT ![s.passes + 1] = st.cost],
              passes |-> s.passes + 1,
              err |-> "none"])

(* k consecutive passes of the loop, lines 225-228 *)
RECURSIVE for_range(_, _, _, _, _, _)
for_range(Xd, yy, mm, al, s, k) ==
    IF k = 0 THEN s
    ELSE IF k = 1 THEN ByValue(s, LAMBDA s1 : loop_body(Xd, yy, mm, al, s1))
    ELSE ByValue(for_range(Xd, yy, mm, al, s, k \div 2), LAMBDA half :
             IF half.err # "none" THEN half
             ELSE for_range(Xd, yy, mm, al, half, k - (k \div 2)))

----------------------------------------------------------------------------
(* The caller's arrays *)

(* the entries of the bounded arrays *)
Entries == {0, MaxVal}

Arrays2D ==
    UNION {{[rows |-> r, cols |-> c, a |-> a] :
               a \in [1..r -> [1..c -> Entries]]} :
           r \in 0..MaxRows, c \in 0..MaxCols}

Arrays1D == UNION {[1..n -> Entries] : n \in 0..MaxRows}

(* the array is one of the bounded ones *)
Bounded(A) == \A r \in 1..A.rows : \A c \in 1..A.cols : A.a[r][c] \in Entries

Alphas == {-ExampleAlpha, 0, ExampleAlpha}

IsExample == Xin = ExampleX /\ y = ExampleY

Init ==
    /\ \/ Xin \in Arrays2D /\ y \in Arrays1D
       \/ Xin = ExampleX /\ y = ExampleY
       \/ Xin = RoundingX /\ y = RoundingY
    /\ fn = "none"
    /\ pc = "idle"
    /\ alpha = 0
    /\ num_iterations = 0
    /\ m = 0
    /\ X = NoMatrix
    /\ theta = <<>>
    /\ cost_history = <<>>
    /\ passes = 0
    /\ outcome = "none"
    /\ result = NoResult

----------------------------------------------------------------------------
(* multiple_linear_regression(X, y), lines 102-108 *)

multiple_linear_regression ==
    /\ pc = "idle"
    /\ fn' = "multiple_linear_regression"
    /\ pc' = "done"
    /\ LET Xd == column_stack(ones(Xin.rows), Xin)
           XtX == matmul(T(Xd), Xd)
       IN  /\ X' = Xd
           /\ \E o \in inv_outcomes(XtX) :
                  IF o = "LinAlgError"
                  THEN outcome' = "LinAlgError" /\ result' = NoResult
                  ELSE LET P == matmul(inv_num(XtX), T(Xd))
                       IN  IF ~dot_ok(P, y)
                           THEN outcome' = "ValueError" /\ result' = NoResult
                           ELSE /\ outcome' = "returned"
                                /\ result' = [num |-> dot(P, y), den |-> inv_den(XtX)]
    /\ UNCHANGED <<Xin, y, alpha, num_iterations, m, theta, cost_history, passes>>

(* the locals of gradient_descent when the call ends, lines 220-228 *)
gd_locals(Xd, yy, al, n) ==
    for_range(Xd, yy, Len(yy), al,
              [theta |-> zeros(Xd.cols), cost_history |-> zeros(n),
               passes |-> 0, err |-> "none"],
              range_len(n))

(* gradient_descent(X, y, alpha, num_iterations), lines 220-230 *)
gradient_descent(al, n) ==
    /\ pc = "idle"
    /\ \/ IsExample /\ n = ExampleIterations /\ al = ExampleAlpha
       \/ Bounded(Xin) /\ n # ExampleIterations
    /\ fn' = "gradient_descent"
    /\ pc' = "done"
    /\ alpha' = al
    /\ num_iterations' = n
    /\ m' = Len(y)
    /\ IF n < 0
       THEN \* np.zeros(num_iterations): negative dimensions are not allowed
            /\ outcome' = "ValueError"
            /\ result' = NoResult
            /\ UNCHANGED <<X, theta, cost_history, passes>>
       ELSE \E s \in {gd_locals(column_stack(ones(Xin.rows), Xin), y, al, n)} :
                /\ X' = column_stack(ones(Xin.rows), Xin)
                /\ theta' = s.theta
                /\ cost_history' = s.cost_history
                /\ passes' = s.passes
                /\ IF s.err # "none"
                   THEN outcome' = s.err /\ result' = NoResult
                   ELSE /\ outcome' = "returned"
                        /\ result' = [num |-> s.theta, den |-> Scale]
    /\ UNCHANGED <<Xin, y>>

(* predict(X, beta) on the caller's features with the coefficients a fit *)
(* returned, lines 130-133 and 232-235                                   *)
predict ==
    /\ pc = "done"
    /\ fn \in {"multiple_linear_regression", "gradient_descent"}
    /\ outcome = "returned"
    /\ fn' = "predict"
    /\ LET Xd == column_stack(ones(Xin.rows), Xin)
       IN  /\ X' = Xd
           /\ IF ~dot_ok(Xd, result.num)
              THEN outcome' = "ValueError" /\ result' = NoResult
              ELSE /\ outcome' = "returned"
                   /\ result' = [num |-> dot(Xd, result.num), den |-> result.den]
    /\ UNCHANGED <<Xin, y, pc, alpha, num_iterations, m, theta, cost_history, passes>>

Next ==
    \/ multiple_linear_regression
    \/ \E al \in Alphas, n \in (-1..MaxIter) \cup {ExampleIterations} :
          gradient_descent(al, n)
    \/ predict

Spec == Init /\ [][Next]_vars

----------------------------------------------------------------------------
(* Properties *)

Min(a, b) == IF a < b THEN a ELSE b

GDEnded == fn = "gradient_descent" /\ pc = "done"
GDReturned == GDEnded /\ outcome = "returned"
MLREnded == fn = "multiple_linear_regression" /\ pc = "done"
MLRReturned == MLREnded /\ outcome = "returned"

(* theta after k updates from the zero vector, recomputed from the call's *)
(* arguments                                                              *)
RECURSIVE theta_after(_)
theta_after(k) ==
    IF k = 0 THEN zeros(Xin.cols + 1)
    ELSE ByValue(theta_after(k - 1), LAMBDA th :
             update(th, alpha, gradients(X, y, Len(y), th)))

(* the passes whose theta is recomputed *)
Checked == 1..Min(passes, MaxIter + 1)

(* C1: the cost stored at index i of the cost history is computed after   *)
(* the update of that pass, from the updated theta: entry k is the cost   *)
(* of theta after k updates, and the last entry is the cost of the theta  *)
(* that is returned.                                                      *)
C1_CostOfUpdatedTheta ==
    (GDEnded /\ passes >= 1) =>
        /\ cost_history[passes] = compute_cost(X, y, theta)
        /\ \A k \in Checked : cost_history[k] = compute_cost(X, y, theta_after(k))

C1_Witness ==
    /\ GDReturned
    /\ passes >= 2
    /\ cost_history[1] # cost_history[2]
    /\ cost_history[passes] # compute_cost(X, y, zeros(X.cols))

(* C2 as claimed: the cost appended at pass k is the cost of the          *)
(* prediction vector of the pre-update theta, so the first recorded cost  *)
(* is the cost of the all-zero coefficient vector.                        *)
C2_CostOfPreUpdateTheta ==
    (GDEnded /\ passes >= 1) =>
        \A k \in Checked :
            cost_history[k] =
                RDiv(np_sum(np_square(sub(dot(X, theta_after(k - 1)), fx(y)))),
                     2 * m)

(* C2 amended: the cost appended at pass k is (1/(2m)) * sum((y_hat - y)^2) *)
(* with y_hat = X * theta for the theta updated in pass k, not the y_hat    *)
(* of that pass's gradient; the first recorded cost is the cost of theta    *)
(* after one update.                                                        *)
C2_CostOfPostUpdateTheta ==
    (GDEnded /\ passes >= 1) =>
        \A k \in Checked :
            cost_history[k] =
                RDiv(np_sum(np_square(sub(dot(X, theta_after(k)), fx(y)))),
                     2 * m)

C2_Witness ==
    /\ GDReturned
    /\ passes >= 1
    /\ theta_after(1) # zeros(X.cols)
    /\ cost_history[1] # compute_cost(X, y, zeros(X.cols))

ValidInput == Xin.rows >= 1 /\ Len(y) = Xin.rows

(* C3: for iterations >= 0 and valid input, gradient_descent starts from  *)
(* the zero vector of length n+1, makes exactly num_iterations full-batch *)
(* updates with no early stop, and returns a coefficient vector of length *)
(* n+1 and a cost history of num_iterations entries; for 0 iterations the *)
(* zero vector and an empty history.                                      *)
C3_ExactlyIterationsUpdates ==
    (GDEnded /\ num_iterations >= 0 /\ ValidInput) =>
        /\ outcome = "returned"
        /\ passes = num_iterations
        /\ Len(cost_history) = num_iterations
        /\ result = [num |-> theta, den |-> Scale]
        /\ Len(theta) = Xin.cols + 1
        /\ num_iterations <= MaxIter + 1 => theta = theta_after(num_iterations)
        /\ num_iterations = 0 =>
               theta = zeros(Xin.cols + 1) /\ cost_history = <<>>

(* a call whose gradient is zero from the first pass on still makes all *)
(* its passes                                                           *)
C3_Witness ==
    /\ GDReturned
    /\ ValidInput
    /\ num_iterations >= 2
    /\ passes = num_iterations
    /\ gradients(X, y, m, zeros(X.cols)) = zeros(X.cols)

(* C4 as claimed: with len(y) # rows(F) both solvers end in an error and *)
(* return nothing.                                                       *)
C4_MismatchIsAnError ==
    (pc = "done" /\ fn \in {"multiple_linear_regression", "gradient_descent"}
        /\ Len(y) # Xin.rows) =>
        outcome \in Errors /\ result = NoResult

(* C5 as claimed: with learningRate <= 0 or iterations < 0 the call ends *)
(* in an error, returns nothing and makes no update.                     *)
C5_InvalidParameterIsAnError ==
    (GDEnded /\ (alpha <= 0 \/ num_iterations < 0)) =>
        outcome \in Errors /\ result = NoResult /\ passes = 0

(* the columns of the design matrix are linearly dependent: it has fewer *)
(* rows than columns, or every square block of its rows has determinant  *)
(* zero                                                                  *)
RowChoices(rows, k) ==
    {f \in [1..k -> 1..rows] : \A p \in 1..k : \A q \in 1..k : p < q => f[p] < f[q]}
Dependent(A) ==
    \/ A.rows < A.cols
    \/ \A f \in RowChoices(A.rows, A.cols) : det([j \in 1..A.cols |-> A.a[f[j]]]) = 0

(* small integer coefficient vectors *)
CoefBox(n) == [1..n -> (-MaxCoef)..MaxCoef]

(* C6 as claimed: when X^T X is singular, multiple_linear_regression ends *)
(* in an error and returns no coefficient vector.                         *)
C6_SingularIsAnError ==
    (MLREnded /\ Dependent(X)) =>
        outcome \in Errors /\ result = NoResult

(* C7 as claimed: a feature matrix with zero rows or zero columns ends *)
(* every operation in an error, with no result.                        *)
C7_EmptyShapeIsAnError ==
    (pc = "done" /\ (Xin.rows = 0 \/ Xin.cols = 0)) =>
        outcome \in Errors /\ result = NoResult

(* C8: when X^T X is invertible, multiple_linear_regression returns the   *)
(* theta of length n+1 that solves X^T X theta = X^T y, and no other      *)
(* vector solves it; when X theta = y is solvable the returned theta      *)
(* reproduces y; the example yields [-3, -1, 3].                          *)
C8_NormalEquations ==
    /\ (MLREnded /\ Len(y) = Xin.rows /\ ~Dependent(X)) => outcome = "returned"
    /\ (MLRReturned /\ ~Dependent(X)) =>
        /\ Len(result.num) = Xin.cols + 1
        /\ result.den # 0
        /\ dot(matmul(T(X), X), result.num) =
               [k \in 1..X.cols |-> result.den * dot(T(X), y)[k]]
        /\ \A t \in CoefBox(X.cols) :
               /\ dot(matmul(T(X), X), t) = dot(T(X), y) =>
                      result.num = [k \in 1..X.cols |-> result.den * t[k]]
               /\ dot(X, t) = y =>
                      dot(X, result.num) = [k \in 1..X.rows |-> result.den * y[k]]
        /\ IsExample =>
               result.num = [k \in 1..X.cols |-> result.den * ExampleBeta[k]]

C8_Witness ==
    /\ MLRReturned
    /\ IsExample
    /\ result.den > 1
    /\ dot(X, ExampleBeta) = y

(* C9: the design matrix has the rows of F and one more column, column 0 *)
(* is all ones, and row i is 1 followed by row i of F.                   *)
C9_DesignMatrix ==
    (pc = "done" /\ ~(fn = "gradient_descent" /\ num_iterations < 0)) =>
        /\ X.rows = Xin.rows
        /\ X.cols = Xin.cols + 1
        /\ \A r \in 1..Xin.rows :
               /\ Len(X.a[r]) = Xin.cols + 1
               /\ X.a[r][1] = 1
               /\ \A c \in 1..Xin.cols : X.a[r][c + 1] = Xin.a[r][c]

C9_Witness ==
    /\ pc = "done"
    /\ X.rows >= 2
    /\ X.cols >= 2
    /\ \E r \in 1..Xin.rows : Xin.a[r][Xin.cols] # 1

(* the squared L2 distance of the returned theta from the normal-equation *)
(* solution of the example, in units of 1/Scale                           *)
Distance2 ==
    np_sum(np_square([k \in 1..Len(theta) |-> theta[k] - Scale * ExampleBeta[k]]))

ExampleRun ==
    /\ GDReturned
    /\ IsExample
    /\ alpha = ExampleAlpha
    /\ num_iterations = ExampleIterations

(* C10 as claimed: the example run ends less than 0.2 from [-3, -1, 3]. *)
C10_Within02 == ExampleRun => 25 * Distance2 < Scale

(* C10 amended: the example run ends more than 0.2 and less than 0.32 *)
(* from [-3, -1, 3].                                                  *)
C10_Within032 ==
    ExampleRun => (25 * Distance2 > Scale /\ 625 * Distance2 < 64 * Scale)

C10_Witness == ExampleRun /\ passes = ExampleIterations

====
